---------------------------- MODULE Spec2Model ----------------------------
(***************************************************************************)
(* Model of the dune simulation of src/SandDunes/index.html: the height    *)
(* field, the terrain brush, the two particle pools (wind tracers and sand *)
(* grains), the avalanche pass and the frame driver.                       *)
(*                                                                         *)
(* Numbers.  The program computes in floating point; the model computes in *)
(* fixed point with integers:                                              *)
(*   time      in units of 1/20 s      (WIND_UPDATE_INTERVAL = 0.1 s = 2)  *)
(*   velocity  in units of 1/100 world units per second                    *)
(*   length    in units of 1/2000 world unit (positions and elevations),   *)
(*             so that  position += velocity * deltaTime  is exact.        *)
(* Math.sqrt is an integer square root of the argument scaled by 10^6      *)
(* (three decimals), products with a fall-off are rounded to the nearest   *)
(* unit, Math.cos / Math.sin are a table in thousandths at multiples of 5  *)
(* degrees, Math.random() is a choice from a small set of samples.         *)
(***************************************************************************)
EXTENDS Integers, Sequences, FiniteSets, TLC

\* ------------------------------------------------------------------ units
PosUnit == 20 * 100          \* length units per world unit
VelUnit == 10 * 10           \* velocity units per world unit / second
TimeUnit == 4 * 5            \* time units per second
Milli == 10 * 100            \* three decimals, for fall-off and trigonometry

\* ------------------------------------------------- bounds of the model
\* Grid cells per axis.  The program fixes 100; the model keeps the terrain's
\* physical size and bounds the resolution, so a cell is wider.
TERRAIN_RESOLUTION == 4

\* Slots of the wind-tracer pool (the program allocates 100) and of the sand
\* pool (the program's MAX_SAND_PARTICLES is 1000).
WIND_POOL_SIZE == 2
MAX_SAND_PARTICLES == 2

\* Tracers spawned per wind step (program: 10), grains spawned per frame
\* (program: 20).
WIND_SPAWN_RATE == 1
SAND_SPAWN_RATE == 1

\* Lifetimes in time units (program: 5 s = 100 units, 10 s = 200 units).
WIND_TTL == 4
SAND_TTL == 6

\* Dunes seeded at construction (program: 10) and largest slider value
\* (program: 20).
InitDuneCount == 1
MaxDuneCount == 2

\* Frames and input events per behaviour.
MaxTicks == 3
MaxInputs == 2

\* ------------------------------------------------- program constants
TERRAIN_WIDTH == 600
TERRAIN_DEPTH == 200
FALLOFF_RADIUS == 3
FALLOFF_STRENGTH == 1

W == TERRAIN_WIDTH * PosUnit
D == TERRAIN_DEPTH * PosUnit
HALF_TERRAIN_WIDTH == W \div 2
HALF_TERRAIN_DEPTH == D \div 2
GRID_SIZE_X == W \div TERRAIN_RESOLUTION
GRID_SIZE_Z == D \div TERRAIN_RESOLUTION

Cells == 0..TERRAIN_RESOLUTION

\* ------------------------------------------------------------ arithmetic
Abs(a) == IF a < 0 THEN -a ELSE a
Min(a, b) == IF a < b THEN a ELSE b
Max(a, b) == IF a > b THEN a ELSE b

\* a / b rounded to the nearest integer (b > 0), halves rounded up
RoundDiv(a, b) == (2 * a + b) \div (2 * b)

RECURSIVE ISqrtRec(_, _, _)
ISqrtRec(n, lo, hi) ==
    IF lo >= hi THEN lo
    ELSE LET mid == (lo + hi + 1) \div 2
         IN  IF mid * mid <= n THEN ISqrtRec(n, mid, hi)
                               ELSE ISqrtRec(n, lo, mid - 1)

\* floor of the square root of n, 0 <= n < 2^30
ISqrt(n) == ISqrtRec(n, 0, 32767)

\* Math.sqrt(d2) in thousandths, for the squared distances of a brush square
SqrtTab == [d2 \in 0..(2 * FALLOFF_RADIUS * FALLOFF_RADIUS) |-> ISqrt(d2 * Milli * Milli)] @@ <<>>

\* Math.sqrt(di * di + dj * dj), in thousandths of a cell
Distance(di, dj) == SqrtTab[di * di + dj * dj]

\* A function constructor is evaluated by TLC on demand, at every application;
\* Eval makes it a value once.
Eval(f) == f @@ <<>>

\* w, with v evaluated first: a loop that hands each iteration's result v to the
\* next is then evaluated iteration by iteration, as the program runs it, and
\* not as one nested expression.
Then(v, w) == IF v = v THEN w ELSE w

\* ---------------------------------------------------------- height field
ZeroHeightmap == Eval([i \in Cells |-> Eval([j \in Cells |-> 0])])

InGrid(i, j) ==
    i >= 0 /\ i < TERRAIN_RESOLUTION + 1 /\ j >= 0 /\ j < TERRAIN_RESOLUTION + 1

\* Math.floor((x + HALF_TERRAIN_WIDTH) / GRID_SIZE_X)
IndexX(x) == (x + HALF_TERRAIN_WIDTH) \div GRID_SIZE_X
IndexZ(z) == (z + HALF_TERRAIN_DEPTH) \div GRID_SIZE_Z

getTerrainHeight(hm, x, z) ==
    LET i == IndexX(x)
        j == IndexZ(z)
    IN  IF i < 0 \/ i >= TERRAIN_RESOLUTION + 1 \/ j < 0 \/ j >= TERRAIN_RESOLUTION + 1
        THEN 0
        ELSE hm[i][j]

\* 1 - Math.min(distance / radius, 1), as the numerator over radius * Milli
FalloffNum(di, dj, radius) ==
    radius * Milli - Min(Distance(di, dj), radius * Milli)

\* height * FALLOFF_STRENGTH * falloff
BrushAmount(height, di, dj, radius) ==
    RoundDiv(height * FALLOFF_STRENGTH * FalloffNum(di, dj, radius), radius * Milli)

\* The brush with no centre test: the in-grid cells of the square are painted
\* wherever the centre lies.
PaintWithMutNoCentreTest(hm, x, z, height, radius) ==
    LET i == IndexX(x)
        j == IndexZ(z)
    IN  Eval([ni \in Cells |-> Eval([nj \in Cells |->
            IF Abs(ni - i) <= radius /\ Abs(nj - j) <= radius
            THEN hm[ni][nj] + BrushAmount(height, ni - i, nj - j, radius)
            ELSE hm[ni][nj]])])

\* The brush with a constant weight over the whole square.
PaintWithMutFlat(hm, x, z, height, radius) ==
    LET i == IndexX(x)
        j == IndexZ(z)
    IN  IF InGrid(i, j)
        THEN Eval([ni \in Cells |-> Eval([nj \in Cells |->
                IF Abs(ni - i) <= radius /\ Abs(nj - j) <= radius
                THEN hm[ni][nj] + height
                ELSE hm[ni][nj]])])
        ELSE hm

\* The body of updateTerrainAtPoint with the brush radius as a parameter.  The
\* loops visit every (di, dj) of the square once, so each in-grid cell of the
\* square receives one addition.
PaintWith(hm, x, z, height, radius) ==
    LET i == IndexX(x)
        j == IndexZ(z)
    IN  IF InGrid(i, j)
        THEN Eval([ni \in Cells |-> Eval([nj \in Cells |->
                IF Abs(ni - i) <= radius /\ Abs(nj - j) <= radius
                THEN hm[ni][nj] + BrushAmount(height, ni - i, nj - j, radius)
                ELSE hm[ni][nj]])])
        ELSE hm

updateTerrainAtPoint(hm, x, z, height) == PaintWith(hm, x, z, height, FALLOFF_RADIUS)


\* ------------------------------------------------------------- constants
WIND_UPDATE_INTERVAL == TimeUnit \div 10            \* 0.1 s
WIND_STRENGTH == 2
EROSION_RATE == (2 * PosUnit) \div 100              \* 0.02
SAND_PARTICLE_SIZE == PosUnit \div 10               \* 0.1
SAND_SPAWN_SPREAD == 1 * PosUnit
DUNE_HEIGHT_SCALE == 1
MARGIN == 10 * PosUnit                              \* the literal 10 of the bounding box
GRAVITY == (98 * VelUnit) \div (10 * TimeUnit)      \* 9.8 per second, per time unit
SPAWN_LIFT == PosUnit \div 10                       \* groundY + 0.1
ANGLE_OF_REPOSE == RoundDiv(57735 * PosUnit, 100000) \* tan(30 deg) = 0.57735
SPEED_STEP == VelUnit \div 10                       \* 0.1 per key press
DIR_STEP == 5                                       \* pi / 36, in degrees
InitWindSpeed == VelUnit \div 2                     \* 0.5
InitWindDirection == 45
InitDuneHeight == 2 * PosUnit
InitSandAmount == 3 * MAX_SAND_PARTICLES                \* 3000, the pool holding 1000

\* Math.cos at multiples of 5 degrees, in thousandths
CosTab == <<1000, 996, 985, 966, 940, 906, 866, 819, 766, 707,
            643, 574, 500, 423, 342, 259, 174, 87, 0>>

Cos(deg) ==
    LET d == deg % 360
    IN  IF d <= 90 THEN CosTab[(d \div 5) + 1]
        ELSE IF d <= 180 THEN -CosTab[((180 - d) \div 5) + 1]
        ELSE IF d <= 270 THEN -CosTab[((d - 180) \div 5) + 1]
        ELSE CosTab[((360 - d) \div 5) + 1]

Sin(deg) == Cos(deg - 90)

\* --------------------------------------------------------------- samples
\* Frame deltas of clock.getDelta(): half a wind interval, and one and a half.
DeltaTimes == {1, 3}

\* Math.random() draws of one tracer spawn: offset along the wind, lateral
\* offset, velocity noise.  At 45 degrees the first lands on the grid, the
\* second off the grid inside the expanded box, the third outside the box.
WindRnd ==
    { [offset |-> 0,            perp |-> 0, nx |-> 0,  nz |-> 0],
      [offset |-> 50 * PosUnit,  perp |-> 0, nx |-> 5,  nz |-> -5],
      [offset |-> 200 * PosUnit, perp |-> 0, nx |-> -5, nz |-> 5] }

\* Math.random() * 0.5 + 0.2 of spawnSandAt
LiftRnd == {45}

\* Math.random() draws of one per-frame grain spawn: dune pick (thousandths),
\* position, angular spread (degrees), lift, jitter.
GrainRnd ==
    { [pick |-> 0,   sx |-> 0, sz |-> 0, spread |-> 0, vy |-> 20, jx |-> 0, jz |-> 0],
      [pick |-> 999, sx |-> 299 * PosUnit, sz |-> 99 * PosUnit, spread |-> 20,
       vy |-> 69, jx |-> 4, jz |-> -4] }

\* (Math.random() - 0.5) * TERRAIN_WIDTH / DEPTH of one dune seed
DuneSeeds ==
    { [x |-> 0, z |-> 0],
      [x |-> -(HALF_TERRAIN_WIDTH), z |-> -(HALF_TERRAIN_DEPTH)] }

DuneHeights == {1 * PosUnit, 5 * PosUnit}
DuneCounts == 1..MaxDuneCount
\* the slider's range, 1000 to 5000, on the scale of the pool
SandAmounts == {MAX_SAND_PARTICLES, 5 * MAX_SAND_PARTICLES}

\* ------------------------------------------------------------------ state
VARIABLES
    heightmap,        \* heightmap[i][j], i along x, j along z
    dunes,            \* sequence of dune records
    windParticles,    \* pool of wind tracers, slot -> record
    sandPool,         \* pool of sand grains, slot -> record
    isSimulating,
    timeAccumulator,
    windSpeed,
    windDirection,    \* degrees
    duneHeight,
    duneCount,
    sandAmount,
    log,              \* history: the calls made by the last handler, in order
    ticks,            \* history: frames (or, for the terrain functions, calls) so far
    inputs            \* history: input events so far

vars == <<heightmap, dunes, windParticles, sandPool, isSimulating, timeAccumulator,
          windSpeed, windDirection, duneHeight, duneCount, sandAmount, log, ticks,
          inputs>>

WindSlots == 0..(WIND_POOL_SIZE - 1)
SandSlots == 0..(MAX_SAND_PARTICLES - 1)

\* `steps' is history: wind steps the tracer has been advanced since its spawn
NewWindParticle == [x |-> 0, z |-> 0, vx |-> 0, vz |-> 0, life |-> 0,
                    visible |-> FALSE, steps |-> 0]
NewSandParticle == [x |-> 0, y |-> 0, z |-> 0, vx |-> 0, vy |-> 0, vz |-> 0,
                    life |-> 0, visible |-> FALSE]

Active(pool) == {k \in DOMAIN pool : pool[k].visible}

OutOfBox(x, z) ==
    \/ x < -(HALF_TERRAIN_WIDTH) - MARGIN
    \/ x > HALF_TERRAIN_WIDTH + MARGIN
    \/ z < -(HALF_TERRAIN_DEPTH) - MARGIN
    \/ z > HALF_TERRAIN_DEPTH + MARGIN

\* The handlers below thread a record s = [hm, wind, sand, log]: the height
\* field, the two pools and the calls made so far by the running handler.

\* ------------------------------------------------------------ spawnSandAt
\* for (const particle of sandPool) if (!particle.visible) { ...; break; }
FirstInvisibleMutLast(pool) ==
    IF Active(pool) = DOMAIN pool THEN -1
    ELSE CHOOSE k \in DOMAIN pool :
            /\ ~pool[k].visible
            /\ \A m \in DOMAIN pool : ~pool[m].visible => m <= k

FirstInvisible(pool) ==
    IF Active(pool) = DOMAIN pool THEN -1
    ELSE CHOOSE k \in DOMAIN pool :
            /\ ~pool[k].visible
            /\ \A m \in DOMAIN pool : ~pool[m].visible => k <= m

SandAtParticle(hm, x, z, lift) ==
    [x |-> x, y |-> getTerrainHeight(hm, x, z) + SPAWN_LIFT, z |-> z,
     vx |-> RoundDiv(windSpeed * Cos(windDirection) * WIND_STRENGTH, Milli),
     vy |-> lift,
     vz |-> RoundDiv(windSpeed * Sin(windDirection) * WIND_STRENGTH, Milli),
     life |-> SAND_TTL, visible |-> TRUE]

\* A saturated pool grows by one slot.
spawnSandAtMutGrow(s, x, z, lift) ==
    LET k == FirstInvisible(s.sand)
        n == IF k = -1 THEN Cardinality(DOMAIN s.sand) ELSE k
        sand2 == Eval([m \in (DOMAIN s.sand) \cup {n} |->
                     IF m = n THEN SandAtParticle(s.hm, x, z, lift) ELSE s.sand[m]])
    IN  [s EXCEPT !.sand = sand2,
                  !.log = Append(@, [op |-> "spawnSandAt", slot |-> n, x |-> x, z |-> z,
                                     active |-> Active(s.sand),
                                     poolPre |-> s.sand, poolPost |-> sand2])]

\* A saturated pool evicts slot 0.
spawnSandAtMutEvict(s, x, z, lift) ==
    LET k == FirstInvisible(s.sand)
        n == IF k = -1 THEN 0 ELSE k
        sand2 == [s.sand EXCEPT ![n] = SandAtParticle(s.hm, x, z, lift)]
    IN  [s EXCEPT !.sand = sand2,
                  !.log = Append(@, [op |-> "spawnSandAt", slot |-> k, x |-> x, z |-> z,
                                     active |-> Active(s.sand),
                                     poolPre |-> s.sand, poolPost |-> sand2])]

spawnSandAt(s, x, z, lift) ==
    LET k == FirstInvisible(s.sand)
        sand2 == IF k = -1 THEN s.sand
                 ELSE [s.sand EXCEPT ![k] = SandAtParticle(s.hm, x, z, lift)]
    IN  [s EXCEPT !.sand = sand2,
                  !.log = Append(@, [op |-> "spawnSandAt", slot |-> k, x |-> x, z |-> z,
                                     active |-> Active(s.sand),
                                     poolPre |-> s.sand, poolPost |-> sand2])]

\* ---------------------------------------------------- updateWindParticles
WindSpawnParticle(r) ==
    LET cx == Cos(windDirection)       \* windDir.x
        cz == Sin(windDirection)       \* windDir.z
        x == RoundDiv(-cx * (HALF_TERRAIN_WIDTH + r.offset), Milli)
        z == RoundDiv(-cz * (HALF_TERRAIN_DEPTH + r.offset), Milli)
    IN  [x |-> x + RoundDiv(-cz * r.perp, Milli),          \* perpDir.x = -sin
         z |-> z + RoundDiv(cx * r.perp, Milli),           \* perpDir.z = cos
         vx |-> RoundDiv(cx * windSpeed * WIND_STRENGTH, Milli) + r.nx,
         vz |-> RoundDiv(cz * windSpeed * WIND_STRENGTH, Milli) + r.nz,
         life |-> WIND_TTL, visible |-> TRUE, steps |-> 0]

\* for (let i = 0; i < windParticles.length && spawned < WIND_SPAWN_RATE; i++)
RECURSIVE WindSpawnLoop(_, _, _, _)
WindSpawnLoop(s, i, spawned, rw) ==
    IF ~(i < WIND_POOL_SIZE /\ spawned < WIND_SPAWN_RATE) THEN s
    ELSE IF ~s.wind[i].visible
         THEN WindSpawnLoop(
                 [s EXCEPT !.wind[i] = WindSpawnParticle(rw[spawned + 1]),
                           !.log = Append(@, [op |-> "windSpawn", slot |-> i,
                                              active |-> Active(s.wind)])],
                 i + 1, spawned + 1, rw)
         ELSE WindSpawnLoop(s, i + 1, spawned, rw)

\* The expiry test written  life < 0.
updateWindTracerMutLate(s, k, lift) ==
    LET p == s.wind[k]
        x == p.x + p.vx * WIND_UPDATE_INTERVAL
        z == p.z + p.vz * WIND_UPDATE_INTERVAL
        life == p.life - WIND_UPDATE_INTERVAL
        hm2 == updateTerrainAtPoint(s.hm, x, z, -EROSION_RATE)
        s1 == [s EXCEPT !.hm = hm2,
                        !.log = Append(@, [op |-> "erode", slot |-> k, x |-> x, z |-> z,
                                           hmPre |-> s.hm, hmPost |-> hm2])]
        s2 == spawnSandAt(s1, x, z, lift)
        hide == life < 0 \/ OutOfBox(x, z)
    IN  [s2 EXCEPT !.wind[k] = [p EXCEPT !.x = x, !.z = z, !.life = life,
                                         !.steps = @ + 1, !.visible = ~hide],
                   !.log = Append(@, [op |-> "tracer", slot |-> k, x |-> x, z |-> z,
                                      life |-> life, steps |-> p.steps + 1,
                                      hidden |-> hide])]

\* A tracer that is hidden in this step neither erodes nor launches a grain.
updateWindTracerMutHideFirst(s, k, lift) ==
    LET p == s.wind[k]
        x == p.x + p.vx * WIND_UPDATE_INTERVAL
        z == p.z + p.vz * WIND_UPDATE_INTERVAL
        life == p.life - WIND_UPDATE_INTERVAL
        hm2 == updateTerrainAtPoint(s.hm, x, z, -EROSION_RATE)
        s1 == [s EXCEPT !.hm = hm2,
                        !.log = Append(@, [op |-> "erode", slot |-> k, x |-> x, z |-> z,
                                           hmPre |-> s.hm, hmPost |-> hm2])]
        hide == life <= 0 \/ OutOfBox(x, z)
        s2 == IF hide THEN s ELSE spawnSandAt(s1, x, z, lift)
    IN  [s2 EXCEPT !.wind[k] = [p EXCEPT !.x = x, !.z = z, !.life = life,
                                         !.steps = @ + 1, !.visible = ~hide],
                   !.log = Append(@, [op |-> "tracer", slot |-> k, x |-> x, z |-> z,
                                      life |-> life, steps |-> p.steps + 1,
                                      hidden |-> hide])]

\* The body of  for (const particle of windParticles)  for a visible particle
updateWindTracer(s, k, lift) ==
    LET p == s.wind[k]
        x == p.x + p.vx * WIND_UPDATE_INTERVAL
        z == p.z + p.vz * WIND_UPDATE_INTERVAL
        life == p.life - WIND_UPDATE_INTERVAL
        hm2 == updateTerrainAtPoint(s.hm, x, z, -EROSION_RATE)
        s1 == [s EXCEPT !.hm = hm2,
                        !.log = Append(@, [op |-> "erode", slot |-> k, x |-> x, z |-> z,
                                           hmPre |-> s.hm, hmPost |-> hm2])]
        s2 == spawnSandAt(s1, x, z, lift)
        hide == life <= 0 \/ OutOfBox(x, z)
    IN  [s2 EXCEPT !.wind[k] = [p EXCEPT !.x = x, !.z = z, !.life = life,
                                         !.steps = @ + 1, !.visible = ~hide],
                   !.log = Append(@, [op |-> "tracer", slot |-> k, x |-> x, z |-> z,
                                      life |-> life, steps |-> p.steps + 1,
                                      hidden |-> hide])]

RECURSIVE WindUpdateLoop(_, _, _)
WindUpdateLoop(s, k, lifts) ==
    IF k >= WIND_POOL_SIZE THEN s
    ELSE IF ~s.wind[k].visible THEN WindUpdateLoop(s, k + 1, lifts)
         ELSE WindUpdateLoop(updateWindTracer(s, k, lifts[k]), k + 1, lifts)

updateWindParticles(s, rw, lifts) ==
    LET s0 == [s EXCEPT !.log = Append(@, [op |-> "updateWindParticles"])]
        s1 == WindSpawnLoop(s0, 0, 0, rw)
        s2 == [s1 EXCEPT !.log = Append(@, [op |-> "windSpawnPhase",
                                            poolPre |-> s.wind, poolPost |-> s1.wind])]
    IN  WindUpdateLoop(s2, 0, lifts)

\* ---------------------------------------------------- updateSandParticles
GrainSpawnParticle(hm, r) ==
    LET dune == dunes[((r.pick * Len(dunes)) \div Milli) + 1]
        variedAngle == windDirection + r.spread
    IN  [x |-> r.sx,
         y |-> getTerrainHeight(hm, r.sx, r.sz) + dune.height * dune.heightScale,
         z |-> r.sz,
         vx |-> RoundDiv(windSpeed * Cos(variedAngle) * WIND_STRENGTH, Milli) + r.jx,
         vy |-> r.vy,
         vz |-> RoundDiv(windSpeed * Sin(variedAngle) * WIND_STRENGTH, Milli) + r.jz,
         life |-> SAND_TTL, visible |-> TRUE]

\* for (let i = 0; i < sandPool.length && spawned < SAND_SPAWN_RATE; i++)
RECURSIVE GrainSpawnLoop(_, _, _, _)
GrainSpawnLoop(s, i, spawned, rg) ==
    IF ~(i < MAX_SAND_PARTICLES /\ spawned < SAND_SPAWN_RATE) THEN s
    ELSE IF s.sand[i].visible THEN GrainSpawnLoop(s, i + 1, spawned, rg)
    ELSE IF Len(dunes) = 0 THEN s
    ELSE GrainSpawnLoop(
            [s EXCEPT !.sand[i] = GrainSpawnParticle(s.hm, rg[spawned + 1]),
                      !.log = Append(@, [op |-> "grainSpawn", slot |-> i,
                                         active |-> Active(s.sand)])],
            i + 1, spawned + 1, rg)

GrainLog(k, x, y, z, life, ground, outcome, hmPre, hmPost) ==
    [op |-> "grain", slot |-> k, x |-> x, y |-> y, z |-> z, life |-> life,
     ground |-> ground, outcome |-> outcome, oob |-> OutOfBox(x, z),
     hmPre |-> hmPre, hmPost |-> hmPost]

\* The cull test placed before the deposition test.
updateSandGrainMutCullFirst(s, k, deltaTime) ==
    LET p == s.sand[k]
        x == p.x + p.vx * deltaTime
        y == p.y + p.vy * deltaTime
        z == p.z + p.vz * deltaTime
        vy == p.vy - GRAVITY * deltaTime
        life == p.life - deltaTime
        moved == [p EXCEPT !.x = x, !.y = y, !.z = z, !.vy = vy, !.life = life]
        terrainHeight == getTerrainHeight(s.hm, x, z)
    IN  IF OutOfBox(x, z) \/ life <= 0
        THEN [s EXCEPT !.sand[k] = [moved EXCEPT !.visible = FALSE],
                       !.log = Append(@, GrainLog(k, x, y, z, life, terrainHeight,
                                                  "cull", s.hm, s.hm))]
        ELSE IF y <= terrainHeight
        THEN LET hm2 == updateTerrainAtPoint(s.hm, x, z, SAND_PARTICLE_SIZE)
             IN  [s EXCEPT !.hm = hm2,
                           !.sand[k] = [moved EXCEPT !.visible = FALSE],
                           !.log = Append(@, GrainLog(k, x, y, z, life, terrainHeight,
                                                      "deposit", s.hm, hm2))]
        ELSE [s EXCEPT !.sand[k] = moved,
                       !.log = Append(@, GrainLog(k, x, y, z, life, terrainHeight,
                                                  "alive", s.hm, s.hm))]

\* A culled grain deposits too.
updateSandGrainMutDepositOnCull(s, k, deltaTime) ==
    LET p == s.sand[k]
        x == p.x + p.vx * deltaTime
        y == p.y + p.vy * deltaTime
        z == p.z + p.vz * deltaTime
        vy == p.vy - GRAVITY * deltaTime
        life == p.life - deltaTime
        moved == [p EXCEPT !.x = x, !.y = y, !.z = z, !.vy = vy, !.life = life]
        terrainHeight == getTerrainHeight(s.hm, x, z)
        hm2 == updateTerrainAtPoint(s.hm, x, z, SAND_PARTICLE_SIZE)
    IN  IF y <= terrainHeight
        THEN [s EXCEPT !.hm = hm2,
                       !.sand[k] = [moved EXCEPT !.visible = FALSE],
                       !.log = Append(@, GrainLog(k, x, y, z, life, terrainHeight,
                                                  "deposit", s.hm, hm2))]
        ELSE IF OutOfBox(x, z) \/ life <= 0
        THEN [s EXCEPT !.hm = hm2,
                       !.sand[k] = [moved EXCEPT !.visible = FALSE],
                       !.log = Append(@, GrainLog(k, x, y, z, life, terrainHeight,
                                                  "cull", s.hm, hm2))]
        ELSE [s EXCEPT !.sand[k] = moved,
                       !.log = Append(@, GrainLog(k, x, y, z, life, terrainHeight,
                                                  "alive", s.hm, s.hm))]

\* The cull test without the bounding box.
updateSandGrainMutNoBox(s, k, deltaTime) ==
    LET p == s.sand[k]
        x == p.x + p.vx * deltaTime
        y == p.y + p.vy * deltaTime
        z == p.z + p.vz * deltaTime
        vy == p.vy - GRAVITY * deltaTime
        life == p.life - deltaTime
        moved == [p EXCEPT !.x = x, !.y = y, !.z = z, !.vy = vy, !.life = life]
        terrainHeight == getTerrainHeight(s.hm, x, z)
    IN  IF y <= terrainHeight
        THEN LET hm2 == updateTerrainAtPoint(s.hm, x, z, SAND_PARTICLE_SIZE)
             IN  [s EXCEPT !.hm = hm2,
                           !.sand[k] = [moved EXCEPT !.visible = FALSE],
                           !.log = Append(@, GrainLog(k, x, y, z, life, terrainHeight,
                                                      "deposit", s.hm, hm2))]
        ELSE IF life <= 0
        THEN [s EXCEPT !.sand[k] = [moved EXCEPT !.visible = FALSE],
                       !.log = Append(@, GrainLog(k, x, y, z, life, terrainHeight,
                                                  "cull", s.hm, s.hm))]
        ELSE [s EXCEPT !.sand[k] = moved,
                       !.log = Append(@, GrainLog(k, x, y, z, life, terrainHeight,
                                                  "alive", s.hm, s.hm))]

\* The body of  for (const particle of sandPool)  for a visible particle
updateSandGrain(s, k, deltaTime) ==
    LET p == s.sand[k]
        x == p.x + p.vx * deltaTime
        y == p.y + p.vy * deltaTime
        z == p.z + p.vz * deltaTime
        vy == p.vy - GRAVITY * deltaTime
        life == p.life - deltaTime
        moved == [p EXCEPT !.x = x, !.y = y, !.z = z, !.vy = vy, !.life = life]
        terrainHeight == getTerrainHeight(s.hm, x, z)
    IN  IF y <= terrainHeight
        THEN LET hm2 == updateTerrainAtPoint(s.hm, x, z, SAND_PARTICLE_SIZE)
             IN  [s EXCEPT !.hm = hm2,
                           !.sand[k] = [moved EXCEPT !.visible = FALSE],
                           !.log = Append(@, GrainLog(k, x, y, z, life, terrainHeight,
                                                      "deposit", s.hm, hm2))]
        ELSE IF OutOfBox(x, z) \/ life <= 0
        THEN [s EXCEPT !.sand[k] = [moved EXCEPT !.visible = FALSE],
                       !.log = Append(@, GrainLog(k, x, y, z, life, terrainHeight,
                                                  "cull", s.hm, s.hm))]
        ELSE [s EXCEPT !.sand[k] = moved,
                       !.log = Append(@, GrainLog(k, x, y, z, life, terrainHeight,
                                                  "alive", s.hm, s.hm))]

RECURSIVE GrainUpdateLoop(_, _, _)
GrainUpdateLoop(s, k, deltaTime) ==
    IF k >= MAX_SAND_PARTICLES THEN s
    ELSE IF ~s.sand[k].visible THEN GrainUpdateLoop(s, k + 1, deltaTime)
         ELSE GrainUpdateLoop(updateSandGrain(s, k, deltaTime), k + 1, deltaTime)

updateSandParticles(s, deltaTime, rg) ==
    LET s0 == [s EXCEPT !.log = Append(@, [op |-> "updateSandParticles",
                                           deltaTime |-> deltaTime])]
        s1 == GrainSpawnLoop(s0, 0, 0, rg)
        s2 == [s1 EXCEPT !.log = Append(@, [op |-> "grainSpawnPhase",
                                            poolPre |-> s.sand, poolPost |-> s1.sand])]
    IN  GrainUpdateLoop(s2, 0, deltaTime)

\* ---------------------------------------------------------- applyAvalanche
\* The transfer of the whole excess, not half of it.
checkTransferMutFull(hm, row, col, nRow, nCol) ==
    LET diff == hm[row][col] - hm[nRow][nCol]
    IN  IF diff > ANGLE_OF_REPOSE
        THEN LET t == diff - ANGLE_OF_REPOSE
             IN  [hm EXCEPT ![row][col] = @ - t, ![nRow][nCol] = @ + t]
        ELSE hm

\* The transfer credited to the neighbour and not debited from the cell.
checkTransferMutNoDebit(hm, row, col, nRow, nCol) ==
    LET diff == hm[row][col] - hm[nRow][nCol]
    IN  IF diff > ANGLE_OF_REPOSE
        THEN LET t == (diff - ANGLE_OF_REPOSE) \div 2
             IN  [hm EXCEPT ![nRow][nCol] = @ + t]
        ELSE hm

checkTransfer(hm, row, col, nRow, nCol) ==
    LET diff == hm[row][col] - hm[nRow][nCol]
    IN  IF diff > ANGLE_OF_REPOSE
        THEN LET t == (diff - ANGLE_OF_REPOSE) \div 2          \* * 0.5
             IN  [hm EXCEPT ![row][col] = @ - t, ![nRow][nCol] = @ + t]
        ELSE hm

AvalancheCell(hm, row, col) ==
    LET h1 == checkTransfer(hm, row, col, row - 1, col)
        h2 == checkTransfer(h1, row, col, row + 1, col)
        h3 == checkTransfer(h2, row, col, row, col - 1)
    IN  checkTransfer(h3, row, col, row, col + 1)

\* for (row = 1; row < numRows - 1; row++) for (col = 1; col < numCols - 1; col++)
RECURSIVE AvalancheLoop(_, _, _)
AvalancheLoop(hm, row, col) ==
    IF row >= TERRAIN_RESOLUTION THEN hm
    ELSE IF col >= TERRAIN_RESOLUTION THEN AvalancheLoop(hm, row + 1, 1)
    ELSE LET h == AvalancheCell(hm, row, col)
         IN  Then(h, AvalancheLoop(h, row, col + 1))

\* The transfer out of (row, col) towards (nRow, nCol) that the heights hm call for
TransferOf(hm, row, col, nRow, nCol) ==
    LET diff == hm[row][col] - hm[nRow][nCol]
    IN  IF diff > ANGLE_OF_REPOSE THEN (diff - ANGLE_OF_REPOSE) \div 2 ELSE 0

Interior(row, col) ==
    /\ row >= 1 /\ row < TERRAIN_RESOLUTION
    /\ col >= 1 /\ col < TERRAIN_RESOLUTION

\* What an interior cell gives away, all four transfers taken from hm
GivenAway(hm, row, col) ==
    IF Interior(row, col)
    THEN TransferOf(hm, row, col, row - 1, col) + TransferOf(hm, row, col, row + 1, col)
         + TransferOf(hm, row, col, row, col - 1) + TransferOf(hm, row, col, row, col + 1)
    ELSE 0

\* What the interior cell (row, col) gives to (nRow, nCol), taken from hm
Given(hm, row, col, nRow, nCol) ==
    IF Interior(row, col) THEN TransferOf(hm, row, col, nRow, nCol) ELSE 0

\* The pass computed from the heights before the pass (double-buffered).
applyAvalancheMutBuffered(hm) ==
    Eval([i \in Cells |-> Eval([j \in Cells |->
        hm[i][j] - GivenAway(hm, i, j)
        + Given(hm, i + 1, j, i, j) + Given(hm, i - 1, j, i, j)
        + Given(hm, i, j + 1, i, j) + Given(hm, i, j - 1, i, j)])])

\* The pass with every cell a source, the boundary cells included.
TransferInGrid(hm, row, col, nRow, nCol) ==
    IF InGrid(nRow, nCol) THEN checkTransfer(hm, row, col, nRow, nCol) ELSE hm

RECURSIVE AvalancheAllLoop(_, _, _)
AvalancheAllLoop(hm, row, col) ==
    IF row > TERRAIN_RESOLUTION THEN hm
    ELSE IF col > TERRAIN_RESOLUTION THEN AvalancheAllLoop(hm, row + 1, 0)
    ELSE LET h1 == TransferInGrid(hm, row, col, row - 1, col)
             h2 == TransferInGrid(h1, row, col, row + 1, col)
             h3 == TransferInGrid(h2, row, col, row, col - 1)
             h == TransferInGrid(h3, row, col, row, col + 1)
         IN  Then(h, AvalancheAllLoop(h, row, col + 1))

applyAvalancheMutAllCells(hm) == AvalancheAllLoop(hm, 0, 0)

applyAvalanche(hm) == AvalancheLoop(hm, 1, 1)

\* updateTerrain: the avalanche pass; the mesh update is rendering
updateTerrain(s) ==
    LET hm2 == applyAvalanche(s.hm)
    IN  [s EXCEPT !.hm = hm2,
                  !.log = Append(@, [op |-> "applyAvalanche", hmPre |-> s.hm,
                                     hmPost |-> hm2])]

\* ------------------------------------------------------------ initTerrain
\* the term a neighbour (ni, nj) adds to sum, and to count
NeighbourHeight(hm, ni, nj) == IF InGrid(ni, nj) THEN hm[ni][nj] ELSE 0
NeighbourCount(ni, nj) == IF InGrid(ni, nj) THEN 1 ELSE 0

\* for (di = -1; di <= 1; di++) for (dj = -1; dj <= 1; dj++)
NeighbourSum(hm, i, j) ==
    NeighbourHeight(hm, i - 1, j - 1) + NeighbourHeight(hm, i - 1, j)
    + NeighbourHeight(hm, i - 1, j + 1) + NeighbourHeight(hm, i, j - 1)
    + NeighbourHeight(hm, i, j) + NeighbourHeight(hm, i, j + 1)
    + NeighbourHeight(hm, i + 1, j - 1) + NeighbourHeight(hm, i + 1, j)
    + NeighbourHeight(hm, i + 1, j + 1)

NeighbourTotal(i, j) ==
    NeighbourCount(i - 1, j - 1) + NeighbourCount(i - 1, j)
    + NeighbourCount(i - 1, j + 1) + NeighbourCount(i, j - 1)
    + NeighbourCount(i, j) + NeighbourCount(i, j + 1)
    + NeighbourCount(i + 1, j - 1) + NeighbourCount(i + 1, j)
    + NeighbourCount(i + 1, j + 1)

\* The pass written into the height field it reads, cell by cell.
RECURSIVE SmoothInPlaceLoop(_, _)
SmoothInPlaceLoop(hm, cell) ==
    IF cell >= (TERRAIN_RESOLUTION + 1) * (TERRAIN_RESOLUTION + 1) THEN hm
    ELSE LET i == cell \div (TERRAIN_RESOLUTION + 1)
             j == cell % (TERRAIN_RESOLUTION + 1)
             count == NeighbourTotal(i, j)
             h == [hm EXCEPT ![i][j] =
                      RoundDiv(3 * NeighbourSum(hm, i, j) + 7 * count * hm[i][j],
                               10 * count)]
         IN  Then(h, SmoothInPlaceLoop(h, cell + 1))

smoothTerrainMutInPlace(hm) == SmoothInPlaceLoop(hm, 0)

\* sum / count * TERRAIN_SMOOTHING + heightmap[i][j] * (1 - TERRAIN_SMOOTHING),
\* TERRAIN_SMOOTHING = 0.3
smoothTerrain(hm) ==
    Eval([i \in Cells |-> Eval([j \in Cells |->
        LET count == NeighbourTotal(i, j)
        IN  RoundDiv(3 * NeighbourSum(hm, i, j) + 7 * count * hm[i][j], 10 * count)])])

RECURSIVE SeedDunes(_, _, _, _)
SeedDunes(t, i, count, seeds) ==
    IF i >= count THEN t
    ELSE LET dune == [x |-> seeds[i + 1].x, z |-> seeds[i + 1].z, height |-> duneHeight,
                      heightScale |-> DUNE_HEIGHT_SCALE]
             t2 == [hm |-> updateTerrainAtPoint(t.hm, dune.x, dune.z, dune.height),
                    dunes |-> Append(t.dunes, dune)]
         IN  Then(t2, SeedDunes(t2, i + 1, count, seeds))

\* for (let i = 0; i < 3; i++) smoothTerrain();
RECURSIVE SmoothPasses(_, _)
SmoothPasses(hm, i) ==
    IF i >= 3 THEN hm
    ELSE LET h == smoothTerrain(hm)
         IN  Then(h, SmoothPasses(h, i + 1))

\* The height field and the dune list that initTerrain builds
initTerrain(seeds) ==
    LET t == SeedDunes([hm |-> ZeroHeightmap, dunes |-> <<>>], 0, duneCount, seeds)
    IN  [hm |-> SmoothPasses(t.hm, 0), dunes |-> t.dunes]

\* ----------------------------------------------------------------- init()
\* The state once init() has run: both pools allocated and invisible, the
\* terrain seeded and smoothed.
Init ==
    /\ isSimulating = FALSE
    /\ timeAccumulator = 0
    /\ windSpeed = InitWindSpeed
    /\ windDirection = InitWindDirection
    /\ duneHeight = InitDuneHeight
    /\ duneCount = InitDuneCount
    /\ sandAmount = InitSandAmount
    /\ windParticles = Eval([k \in WindSlots |-> NewWindParticle])
    /\ sandPool = Eval([k \in SandSlots |-> NewSandParticle])
    /\ \E seeds \in [1..InitDuneCount -> DuneSeeds] :
          LET t == initTerrain(seeds)
          IN  heightmap = t.hm /\ dunes = t.dunes
    /\ log = <<>>
    /\ ticks = 0
    /\ inputs = 0

Sim == [hm |-> heightmap, wind |-> windParticles, sand |-> sandPool,
        log |-> <<>>]

Commit(s) ==
    /\ heightmap' = s.hm
    /\ windParticles' = s.wind
    /\ sandPool' = s.sand
    /\ log' = s.log

\* ---------------------------------------------------------------- animate()
\* A frame that runs the grain step and the avalanche pass while the simulation
\* is off.
AnimateIdleMutRuns ==
    /\ ticks < MaxTicks
    /\ ~isSimulating
    /\ \E deltaTime \in DeltaTimes, rg \in [1..SAND_SPAWN_RATE -> GrainRnd] :
          /\ timeAccumulator' = timeAccumulator + deltaTime
          /\ Commit(updateTerrain(updateSandParticles(Sim, deltaTime, rg)))
    /\ ticks' = ticks + 1
    /\ UNCHANGED <<dunes, isSimulating, windSpeed, windDirection, duneHeight,
                   duneCount, sandAmount, inputs>>

\* A frame while the simulation is off: only the accumulator advances.
AnimateIdle ==
    /\ ticks < MaxTicks
    /\ ~isSimulating
    /\ \E deltaTime \in DeltaTimes :
          timeAccumulator' = timeAccumulator + deltaTime
    /\ ticks' = ticks + 1
    /\ log' = <<>>
    /\ UNCHANGED <<heightmap, dunes, windParticles, sandPool, isSimulating, windSpeed,
                   windDirection, duneHeight, duneCount, sandAmount, inputs>>

\* A running frame that runs the grain step before the wind step.
AnimateWindMutGrainFirst ==
    /\ ticks < MaxTicks
    /\ isSimulating
    /\ \E deltaTime \in DeltaTimes, rw \in [1..WIND_SPAWN_RATE -> WindRnd],
          lifts \in [WindSlots -> LiftRnd], rg \in [1..SAND_SPAWN_RATE -> GrainRnd] :
          /\ timeAccumulator + deltaTime >= WIND_UPDATE_INTERVAL
          /\ Commit(updateTerrain(updateWindParticles(
                        updateSandParticles(Sim, deltaTime, rg), rw, lifts)))
    /\ timeAccumulator' = 0
    /\ ticks' = ticks + 1
    /\ UNCHANGED <<dunes, isSimulating, windSpeed, windDirection, duneHeight,
                   duneCount, sandAmount, inputs>>

\* A running frame that carries the time above the interval over.
AnimateWindMutCarry ==
    /\ ticks < MaxTicks
    /\ isSimulating
    /\ \E deltaTime \in DeltaTimes, rw \in [1..WIND_SPAWN_RATE -> WindRnd],
          lifts \in [WindSlots -> LiftRnd], rg \in [1..SAND_SPAWN_RATE -> GrainRnd] :
          /\ timeAccumulator + deltaTime >= WIND_UPDATE_INTERVAL
          /\ timeAccumulator' = timeAccumulator + deltaTime - WIND_UPDATE_INTERVAL
          /\ Commit(updateTerrain(updateSandParticles(
                        updateWindParticles(Sim, rw, lifts), deltaTime, rg)))
    /\ ticks' = ticks + 1
    /\ UNCHANGED <<dunes, isSimulating, windSpeed, windDirection, duneHeight,
                   duneCount, sandAmount, inputs>>

\* A running frame in which the wind step is due.
AnimateWind ==
    /\ ticks < MaxTicks
    /\ isSimulating
    /\ \E deltaTime \in DeltaTimes, rw \in [1..WIND_SPAWN_RATE -> WindRnd],
          lifts \in [WindSlots -> LiftRnd], rg \in [1..SAND_SPAWN_RATE -> GrainRnd] :
          /\ timeAccumulator + deltaTime >= WIND_UPDATE_INTERVAL
          /\ Commit(updateTerrain(updateSandParticles(
                        updateWindParticles(Sim, rw, lifts), deltaTime, rg)))
    /\ timeAccumulator' = 0
    /\ ticks' = ticks + 1
    /\ UNCHANGED <<dunes, isSimulating, windSpeed, windDirection, duneHeight,
                   duneCount, sandAmount, inputs>>

\* A running frame in which the wind step is not due.
AnimateNoWind ==
    /\ ticks < MaxTicks
    /\ isSimulating
    /\ \E deltaTime \in DeltaTimes, rg \in [1..SAND_SPAWN_RATE -> GrainRnd] :
          /\ timeAccumulator + deltaTime < WIND_UPDATE_INTERVAL
          /\ timeAccumulator' = timeAccumulator + deltaTime
          /\ Commit(updateTerrain(updateSandParticles(Sim, deltaTime, rg)))
    /\ ticks' = ticks + 1
    /\ UNCHANGED <<dunes, isSimulating, windSpeed, windDirection, duneHeight,
                   duneCount, sandAmount, inputs>>

\* ------------------------------------------------------------------ initUI
Keys == {"ArrowUp", "ArrowDown", "ArrowLeft", "ArrowRight"}

\* The keydown listener with no clamp of the speed.
KeyDownListenerMutNoClamp(key) ==
    /\ windSpeed' = CASE key = "ArrowUp" -> windSpeed + SPEED_STEP
                      [] key = "ArrowDown" -> windSpeed - SPEED_STEP
                      [] OTHER -> windSpeed
    /\ windDirection' = CASE key = "ArrowLeft" -> windDirection - DIR_STEP
                          [] key = "ArrowRight" -> windDirection + DIR_STEP
                          [] OTHER -> windDirection
    /\ inputs' = inputs + 1
    /\ log' = <<[op |-> "keydown", key |-> key, speedPre |-> windSpeed,
                  directionPre |-> windDirection]>>
    /\ UNCHANGED <<heightmap, dunes, windParticles, sandPool, isSimulating,
                   timeAccumulator, duneHeight, duneCount, sandAmount, ticks>>

\* The keydown listener with the direction reduced to one turn.
KeyDownListenerMutWrap(key) ==
    /\ windSpeed' = CASE key = "ArrowUp" -> windSpeed + SPEED_STEP
                      [] key = "ArrowDown" -> Max(0, windSpeed - SPEED_STEP)
                      [] OTHER -> windSpeed
    /\ windDirection' = CASE key = "ArrowLeft" -> (windDirection - DIR_STEP) % 360
                          [] key = "ArrowRight" -> (windDirection + DIR_STEP) % 360
                          [] OTHER -> windDirection
    /\ inputs' = inputs + 1
    /\ log' = <<[op |-> "keydown", key |-> key, speedPre |-> windSpeed,
                  directionPre |-> windDirection]>>
    /\ UNCHANGED <<heightmap, dunes, windParticles, sandPool, isSimulating,
                   timeAccumulator, duneHeight, duneCount, sandAmount, ticks>>

\* The keydown listener, for one of the four keys it handles
KeyDownListener(key) ==
    /\ windSpeed' = CASE key = "ArrowUp" -> windSpeed + SPEED_STEP
                      [] key = "ArrowDown" -> Max(0, windSpeed - SPEED_STEP)
                      [] OTHER -> windSpeed
    /\ windDirection' = CASE key = "ArrowLeft" -> windDirection - DIR_STEP
                          [] key = "ArrowRight" -> windDirection + DIR_STEP
                          [] OTHER -> windDirection
    /\ inputs' = inputs + 1
    /\ log' = <<[op |-> "keydown", key |-> key, speedPre |-> windSpeed,
                  directionPre |-> windDirection]>>
    /\ UNCHANGED <<heightmap, dunes, windParticles, sandPool, isSimulating,
                   timeAccumulator, duneHeight, duneCount, sandAmount, ticks>>

KeyDown ==
    /\ inputs < MaxInputs
    /\ \E key \in Keys : KeyDownListener(key)

DuneHeightInput ==
    /\ inputs < MaxInputs
    /\ \E v \in DuneHeights : duneHeight' = v
    /\ inputs' = inputs + 1
    /\ log' = <<>>
    /\ UNCHANGED <<heightmap, dunes, windParticles, sandPool, isSimulating,
                   timeAccumulator, windSpeed, windDirection, duneCount, sandAmount,
                   ticks>>

DuneCountInput ==
    /\ inputs < MaxInputs
    /\ \E v \in DuneCounts : duneCount' = v
    /\ inputs' = inputs + 1
    /\ log' = <<>>
    /\ UNCHANGED <<heightmap, dunes, windParticles, sandPool, isSimulating,
                   timeAccumulator, windSpeed, windDirection, duneHeight, sandAmount,
                   ticks>>

SandAmountInput ==
    /\ inputs < MaxInputs
    /\ \E v \in SandAmounts : sandAmount' = v
    /\ inputs' = inputs + 1
    /\ log' = <<>>
    /\ UNCHANGED <<heightmap, dunes, windParticles, sandPool, isSimulating,
                   timeAccumulator, windSpeed, windDirection, duneHeight, duneCount,
                   ticks>>

\* The start button, restoring the wind speed too.
StartMutWind ==
    /\ inputs < MaxInputs
    /\ isSimulating' = TRUE
    /\ windSpeed' = InitWindSpeed
    /\ inputs' = inputs + 1
    /\ log' = <<[op |-> "start"]>>
    /\ UNCHANGED <<heightmap, dunes, windParticles, sandPool, timeAccumulator,
                   windDirection, duneHeight, duneCount, sandAmount, ticks>>

Start ==
    /\ inputs < MaxInputs
    /\ isSimulating' = TRUE
    /\ inputs' = inputs + 1
    /\ log' = <<[op |-> "start"]>>
    /\ UNCHANGED <<heightmap, dunes, windParticles, sandPool, timeAccumulator,
                   windSpeed, windDirection, duneHeight, duneCount, sandAmount, ticks>>

\* The reset button, with the dunes stamped on the height field as it is.
ResetMutStampsOver ==
    /\ inputs < MaxInputs
    /\ sandPool' = [k \in DOMAIN sandPool |-> [sandPool[k] EXCEPT !.visible = FALSE]]
    /\ windParticles' =
          [k \in DOMAIN windParticles |-> [windParticles[k] EXCEPT !.visible = FALSE]]
    /\ \E seeds \in [1..duneCount -> DuneSeeds] :
          LET t == SeedDunes([hm |-> heightmap, dunes |-> <<>>], 0, duneCount, seeds)
          IN  /\ heightmap' = SmoothPasses(t.hm, 0)
              /\ dunes' = t.dunes
              /\ log' = <<[op |-> "resetSimulation", seeds |-> seeds, hmPre |-> heightmap,
                            windPre |-> windParticles, sandPre |-> sandPool,
                            running |-> isSimulating]>>
    /\ isSimulating' = FALSE
    /\ timeAccumulator' = 0
    /\ inputs' = inputs + 1
    /\ UNCHANGED <<windSpeed, windDirection, duneHeight, duneCount, sandAmount, ticks>>

\* The reset button, leaving the wind tracers as they are.
ResetMutKeepsWind ==
    /\ inputs < MaxInputs
    /\ sandPool' = [k \in DOMAIN sandPool |-> [sandPool[k] EXCEPT !.visible = FALSE]]
    /\ windParticles' = windParticles
    /\ \E seeds \in [1..duneCount -> DuneSeeds] :
          LET t == initTerrain(seeds)
          IN  /\ heightmap' = t.hm
              /\ dunes' = t.dunes
              /\ log' = <<[op |-> "resetSimulation", seeds |-> seeds, hmPre |-> heightmap,
                            windPre |-> windParticles, sandPre |-> sandPool,
                            running |-> isSimulating]>>
    /\ isSimulating' = FALSE
    /\ timeAccumulator' = 0
    /\ inputs' = inputs + 1
    /\ UNCHANGED <<windSpeed, windDirection, duneHeight, duneCount, sandAmount, ticks>>

\* The reset button: isSimulating = false; resetSimulation()
Reset ==
    /\ inputs < MaxInputs
    /\ sandPool' = [k \in DOMAIN sandPool |-> [sandPool[k] EXCEPT !.visible = FALSE]]
    /\ windParticles' =
          [k \in DOMAIN windParticles |-> [windParticles[k] EXCEPT !.visible = FALSE]]
    /\ \E seeds \in [1..duneCount -> DuneSeeds] :
          LET t == initTerrain(seeds)
          IN  /\ heightmap' = t.hm
              /\ dunes' = t.dunes
              /\ log' = <<[op |-> "resetSimulation", seeds |-> seeds, hmPre |-> heightmap,
                            windPre |-> windParticles, sandPre |-> sandPool,
                            running |-> isSimulating]>>
    /\ isSimulating' = FALSE
    /\ timeAccumulator' = 0
    /\ inputs' = inputs + 1
    /\ UNCHANGED <<windSpeed, windDirection, duneHeight, duneCount, sandAmount, ticks>>

Next ==
    \/ AnimateIdle
    \/ AnimateWind
    \/ AnimateNoWind
    \/ KeyDown
    \/ DuneHeightInput
    \/ DuneCountInput
    \/ SandAmountInput
    \/ Start
    \/ Reset

Spec == Init /\ [][Next]_vars

\* ------------------------------------------------------------------------
\* The keydown listener on its own: key presses from the state init() leaves.

\* Key presses per behaviour: enough for a full turn of the wind direction
MaxKeys == 72

KeyPress ==
    /\ inputs < MaxKeys
    /\ \E key \in Keys : KeyDownListener(key)

WindSpec == Init /\ [][KeyPress]_vars

\* ------------------------------------------------------------------------
\* The terrain functions on their own: getTerrainHeight and updateTerrainAtPoint
\* applied to height fields and coordinates drawn from bounded sets.

\* The index pairs at which each function reads or writes heightmap[.][.], as
\* its loops and tests admit them.

\* getTerrainHeight: heightmap[i][j] after the bounds test
getTerrainHeightIndices(x, z) ==
    LET i == IndexX(x)
        j == IndexZ(z)
    IN  IF i < 0 \/ i >= TERRAIN_RESOLUTION + 1 \/ j < 0 \/ j >= TERRAIN_RESOLUTION + 1
        THEN {}
        ELSE {<<i, j>>}

\* The brush with no test of the neighbour's indices.
PaintIndicesMutNoNeighbourTest(x, z, radius) ==
    LET i == IndexX(x)
        j == IndexZ(z)
    IN  IF InGrid(i, j)
        THEN {<<i + di, j + dj>> : di \in (-radius)..radius, dj \in (-radius)..radius}
        ELSE {}

\* updateTerrainAtPoint: heightmap[ni][nj] after the centre and neighbour tests
PaintIndices(x, z, radius) ==
    LET i == IndexX(x)
        j == IndexZ(z)
    IN  IF InGrid(i, j)
        THEN {c \in {<<i + di, j + dj>> : di \in (-radius)..radius,
                                         dj \in (-radius)..radius} :
                c[1] >= 0 /\ c[1] < TERRAIN_RESOLUTION + 1
                /\ c[2] >= 0 /\ c[2] < TERRAIN_RESOLUTION + 1}
        ELSE {}

\* smoothTerrain: heightmap[ni][nj] after the neighbour test, and heightmap[i][j]
smoothTerrainIndices ==
    UNION {{c \in {<<i + di, j + dj>> : di \in -1..1, dj \in -1..1} :
                c[1] >= 0 /\ c[1] < TERRAIN_RESOLUTION + 1
                /\ c[2] >= 0 /\ c[2] < TERRAIN_RESOLUTION + 1} \cup {<<i, j>>} :
           i \in 0..TERRAIN_RESOLUTION, j \in 0..TERRAIN_RESOLUTION}

\* applyAvalanche and checkTransfer: heightmap[row][col] and heightmap[nRow][nCol]
\* for row in 1..numRows - 2 and col in 1..numCols - 2
applyAvalancheIndices(hm) ==
    LET numRows == Cardinality(DOMAIN hm)
        numCols == Cardinality(DOMAIN hm[0])
    IN  UNION {{<<row, col>>, <<row - 1, col>>, <<row + 1, col>>, <<row, col - 1>>,
                <<row, col + 1>>} : row \in 1..(numRows - 2), col \in 1..(numCols - 2)}

\* Calls per behaviour
MaxCalls == 1

\* The height fields the calls start from: all zero, and the fields init() or
\* a reset builds around dunes of the configured height at the origin, at the
\* lower corner, and at both.
CallHeightmaps ==
    { ZeroHeightmap,
      initTerrain([n \in 1..InitDuneCount |-> [x |-> 0, z |-> 0]]).hm,
      initTerrain([n \in 1..InitDuneCount |->
                      [x |-> -(HALF_TERRAIN_WIDTH), z |-> -(HALF_TERRAIN_DEPTH)]]).hm,
      SmoothPasses(
          SeedDunes([hm |-> ZeroHeightmap, dunes |-> <<>>], 0, 2,
                    <<[x |-> -(HALF_TERRAIN_WIDTH), z |-> -(HALF_TERRAIN_DEPTH)],
                      [x |-> 0, z |-> 0]>>).hm, 0) }

\* World x: a cell below the grid, just below it, the lower edge, inside cell
\* 2, the upper edge W/2, half a cell beyond it, one cell beyond it.
CallXs ==
    { -(HALF_TERRAIN_WIDTH) - GRID_SIZE_X, -(HALF_TERRAIN_WIDTH) - 1,
      -(HALF_TERRAIN_WIDTH), -(HALF_TERRAIN_WIDTH) + 2 * GRID_SIZE_X + 7,
      HALF_TERRAIN_WIDTH, HALF_TERRAIN_WIDTH + GRID_SIZE_X \div 2,
      HALF_TERRAIN_WIDTH + GRID_SIZE_X }

CallZs ==
    { -(HALF_TERRAIN_DEPTH) - 1, -(HALF_TERRAIN_DEPTH),
      -(HALF_TERRAIN_DEPTH) + 2 * GRID_SIZE_Z + 7,
      HALF_TERRAIN_DEPTH + GRID_SIZE_Z \div 2, HALF_TERRAIN_DEPTH + GRID_SIZE_Z }

CallHeights == {10 * PosUnit, -EROSION_RATE, SAND_PARTICLE_SIZE}
CallRadii == {2, FALLOFF_RADIUS}

TerrainInit ==
    /\ isSimulating = FALSE
    /\ timeAccumulator = 0
    /\ windSpeed = InitWindSpeed
    /\ windDirection = InitWindDirection
    /\ duneHeight \in {InitDuneHeight} \cup DuneHeights
    /\ duneCount = InitDuneCount
    /\ sandAmount = InitSandAmount
    /\ windParticles = Eval([k \in WindSlots |-> NewWindParticle])
    /\ sandPool = Eval([k \in SandSlots |-> NewSandParticle])
    /\ dunes = <<>>
    /\ heightmap \in CallHeightmaps
    /\ log = <<>>
    /\ ticks = 0
    /\ inputs = 0

QueryCall ==
    /\ ticks < MaxCalls
    /\ \E x \in CallXs, z \in CallZs :
          log' = <<[op |-> "getTerrainHeight", x |-> x, z |-> z, hm |-> heightmap,
                    result |-> getTerrainHeight(heightmap, x, z),
                    touched |-> getTerrainHeightIndices(x, z)]>>
    /\ ticks' = ticks + 1
    /\ UNCHANGED <<heightmap, dunes, windParticles, sandPool, isSimulating,
                   timeAccumulator, windSpeed, windDirection, duneHeight, duneCount,
                   sandAmount, inputs>>

PaintCall ==
    /\ ticks < MaxCalls
    /\ \E x \in CallXs, z \in CallZs, height \in CallHeights, radius \in CallRadii :
          /\ heightmap' = PaintWith(heightmap, x, z, height, radius)
          /\ log' = <<[op |-> "updateTerrainAtPoint", x |-> x, z |-> z,
                       height |-> height, radius |-> radius, hmPre |-> heightmap,
                       hmPost |-> heightmap',
                       touched |-> PaintIndices(x, z, radius)]>>
    /\ ticks' = ticks + 1
    /\ UNCHANGED <<dunes, windParticles, sandPool, isSimulating, timeAccumulator,
                   windSpeed, windDirection, duneHeight, duneCount, sandAmount, inputs>>

SmoothCall ==
    /\ ticks < MaxCalls
    /\ heightmap' = smoothTerrain(heightmap)
    /\ log' = <<[op |-> "smoothTerrain", hmPre |-> heightmap, hmPost |-> heightmap',
                 touched |-> smoothTerrainIndices]>>
    /\ ticks' = ticks + 1
    /\ UNCHANGED <<dunes, windParticles, sandPool, isSimulating, timeAccumulator,
                   windSpeed, windDirection, duneHeight, duneCount, sandAmount, inputs>>

AvalancheCall ==
    /\ ticks < MaxCalls
    /\ heightmap' = applyAvalanche(heightmap)
    /\ log' = <<[op |-> "applyAvalanche", hmPre |-> heightmap, hmPost |-> heightmap',
                 touched |-> applyAvalancheIndices(heightmap)]>>
    /\ ticks' = ticks + 1
    /\ UNCHANGED <<dunes, windParticles, sandPool, isSimulating, timeAccumulator,
                   windSpeed, windDirection, duneHeight, duneCount, sandAmount, inputs>>

\* checkTransfer as applyAvalanche calls it: an interior cell and one of its
\* four neighbours
TransferCall ==
    /\ ticks < MaxCalls
    /\ \E row \in 1..(TERRAIN_RESOLUTION - 1), col \in 1..(TERRAIN_RESOLUTION - 1),
          d \in {<<-1, 0>>, <<1, 0>>, <<0, -1>>, <<0, 1>>} :
          /\ heightmap' = checkTransfer(heightmap, row, col, row + d[1], col + d[2])
          /\ log' = <<[op |-> "checkTransfer", row |-> row, col |-> col,
                       nRow |-> row + d[1], nCol |-> col + d[2],
                       hmPre |-> heightmap, hmPost |-> heightmap',
                       touched |-> {<<row, col>>, <<row + d[1], col + d[2]>>}]>>
    /\ ticks' = ticks + 1
    /\ UNCHANGED <<dunes, windParticles, sandPool, isSimulating, timeAccumulator,
                   windSpeed, windDirection, duneHeight, duneCount, sandAmount, inputs>>

TerrainNext == QueryCall \/ PaintCall \/ SmoothCall \/ AvalancheCall \/ TransferCall

TerrainSpec == TerrainInit /\ [][TerrainNext]_vars

\* ------------------------------------------------------------------------
\* Properties of the terrain functions (TerrainSpec)

Entries(op) == {n \in DOMAIN log : log[n].op = op}

OutsideTerrain(x, z) ==
    \/ x < -(HALF_TERRAIN_WIDTH) \/ x > HALF_TERRAIN_WIDTH
    \/ z < -(HALF_TERRAIN_DEPTH) \/ z > HALF_TERRAIN_DEPTH

\* C1: for every world coordinate outside [-W/2, W/2] x [-D/2, D/2],
\* getTerrainHeight returns 0 whatever the height field holds, also less than
\* one cell beyond the +W/2 or +D/2 edge.
C1_QueryOutsideTerrainIsZero ==
    \A n \in Entries("getTerrainHeight") :
        OutsideTerrain(log[n].x, log[n].z) => log[n].result = 0

\* The square root the claims speak of, to three decimals, stated by its
\* defining inequality.
ExpectedSqrt ==
    [d2 \in 0..(2 * FALLOFF_RADIUS * FALLOFF_RADIUS) |->
        CHOOSE r \in 0..(2 * FALLOFF_RADIUS * Milli) :
            r * r <= d2 * Milli * Milli /\ (r + 1) * (r + 1) > d2 * Milli * Milli] @@ <<>>

\* delta * max(0, 1 - dist / Rb), to the nearest unit
ExpectedDelta(delta, d2, Rb) ==
    RoundDiv(delta * Max(0, Rb * Milli - ExpectedSqrt[d2]), Rb * Milli)

Dist2(e, ni, nj) ==
    (ni - IndexX(e.x)) * (ni - IndexX(e.x)) + (nj - IndexZ(e.z)) * (nj - IndexZ(e.z))

InBrushSquare(e, ni, nj) ==
    Abs(ni - IndexX(e.x)) <= e.radius /\ Abs(nj - IndexZ(e.z)) <= e.radius

IsInstanceCall(e) ==
    /\ e.hmPre = ZeroHeightmap
    /\ e.radius = 2
    /\ e.height = 10 * PosUnit
    /\ IndexX(e.x) = 2 /\ IndexZ(e.z) = 2

\* C2: a call whose centre maps to an in-grid cell adds exactly
\* delta * max(0, 1 - dist / Rb) to every in-grid cell of the brush, on top of the
\* existing elevation and unclamped; with all heights 0, Rb = 2 and delta = +10
\* centred on cell (2,2): cell (2,2) = 10, its four edge neighbours = 5 and every
\* cell at distance >= 2 stays 0.
C2_BrushAddsLinearFalloff ==
    \A n \in Entries("updateTerrainAtPoint") :
        LET e == log[n]
        IN  InGrid(IndexX(e.x), IndexZ(e.z)) =>
              /\ \A ni \in Cells, nj \in Cells :
                    InBrushSquare(e, ni, nj) =>
                        e.hmPost[ni][nj] =
                            e.hmPre[ni][nj] + ExpectedDelta(e.height, Dist2(e, ni, nj), e.radius)
              /\ IsInstanceCall(e) =>
                    /\ e.hmPost[2][2] = 10 * PosUnit
                    /\ e.hmPost[1][2] = 5 * PosUnit /\ e.hmPost[3][2] = 5 * PosUnit
                    /\ e.hmPost[2][1] = 5 * PosUnit /\ e.hmPost[2][3] = 5 * PosUnit
                    /\ \A ni \in Cells, nj \in Cells :
                          Dist2(e, ni, nj) >= 4 => e.hmPost[ni][nj] = 0

C2_Witness ==
    \E n \in Entries("updateTerrainAtPoint") :
        IsInstanceCall(log[n]) /\ log[n].hmPost[2][2] # 0

\* C3: every cell farther than Rb (Euclidean, in cells) from the centre cell has
\* the same elevation after updateTerrainAtPoint as before.
C3_PaintingLocality ==
    \A n \in Entries("updateTerrainAtPoint") :
        LET e == log[n]
        IN  \A ni \in Cells, nj \in Cells :
                Dist2(e, ni, nj) > e.radius * e.radius =>
                    e.hmPost[ni][nj] = e.hmPre[ni][nj]

\* a call that changed the field, with a cell of the brush square farther than Rb
C3_Witness ==
    \E n \in Entries("updateTerrainAtPoint") :
        LET e == log[n]
        IN  /\ e.hmPost # e.hmPre
            /\ \E ni \in Cells, nj \in Cells :
                  InBrushSquare(e, ni, nj) /\ Dist2(e, ni, nj) > e.radius * e.radius

\* C4: a call whose centre cell is outside the grid changes no cell, even cells
\* within Rb of that centre, and raises no error; with the centre in the grid
\* the brush cells outside the grid are skipped (the field keeps its shape) and
\* the in-grid cells nearer than Rb are updated.
C4_OffGridCentreIsNoOp ==
    \A n \in Entries("updateTerrainAtPoint") :
        LET e == log[n]
        IN  /\ ~InGrid(IndexX(e.x), IndexZ(e.z)) => e.hmPost = e.hmPre
            /\ DOMAIN e.hmPost = Cells
            /\ \A ni \in Cells : DOMAIN e.hmPost[ni] = Cells
            /\ InGrid(IndexX(e.x), IndexZ(e.z)) =>
                  \A ni \in Cells, nj \in Cells :
                      Dist2(e, ni, nj) < e.radius * e.radius =>
                          e.hmPost[ni][nj] # e.hmPre[ni][nj]

\* a call with the centre one cell off the grid and grid cells within its brush
C4_Witness ==
    \E n \in Entries("updateTerrainAtPoint") :
        LET e == log[n]
        IN  /\ ~InGrid(IndexX(e.x), IndexZ(e.z))
            /\ \E ni \in Cells, nj \in Cells :
                  Dist2(e, ni, nj) < e.radius * e.radius

\* ------------------------------------------------------------------------
\* Properties of the running simulation (Spec)

LowestOf(S) == CHOOSE k \in S : \A m \in S : k <= m

\* C5: in every reachable state the active slots of each pool number at most
\* the pool's fixed capacity, and the number of slots of each pool never
\* changes.
C5_PoolCapacity ==
    /\ DOMAIN windParticles = WindSlots
    /\ DOMAIN sandPool = SandSlots
    /\ Cardinality(Active(windParticles)) <= WIND_POOL_SIZE
    /\ Cardinality(Active(sandPool)) <= MAX_SAND_PARTICLES

\* the sand pool is full after a frame in which a spawn was attempted on the
\* full pool
C5_Witness ==
    /\ Active(sandPool) = SandSlots
    /\ \E n \in Entries("spawnSandAt") : log[n].active = SandSlots

\* C6: every spawn (tracer spawn, spawnSandAt, per-frame grain spawn) activates
\* the lowest-indexed inactive slot of its pool; a slot deactivated earlier is
\* reused when it is the lowest inactive one.
C6_FirstFit ==
    \A n \in DOMAIN log :
        LET e == log[n]
        IN  /\ e.op = "windSpawn" => e.slot = LowestOf(WindSlots \ e.active)
            /\ e.op = "grainSpawn" => e.slot = LowestOf(SandSlots \ e.active)
            /\ (e.op = "spawnSandAt" /\ e.active # SandSlots) =>
                  /\ e.slot = LowestOf(SandSlots \ e.active)
                  /\ e.poolPost[e.slot].visible

\* spawnSandAt reuses a slot that held a grain before, below a slot still active
C6_Witness ==
    \E n \in Entries("spawnSandAt") :
        LET e == log[n]
        IN  /\ e.slot >= 0
            /\ e.poolPre[e.slot] # NewSandParticle
            /\ \E m \in e.active : m > e.slot

\* C7: a spawn attempted while every slot of the pool is active changes no slot
\* (position, velocity, life, active flag) and raises no error.
C7_SaturatedSpawnIsNoOp ==
    \A n \in DOMAIN log :
        LET e == log[n]
        IN  /\ (e.op = "spawnSandAt" /\ e.active = SandSlots) =>
                  e.slot = -1 /\ e.poolPost = e.poolPre
            /\ (e.op = "grainSpawnPhase" /\ Active(e.poolPre) = SandSlots) =>
                  e.poolPost = e.poolPre
            /\ (e.op = "windSpawnPhase" /\ Active(e.poolPre) = WindSlots) =>
                  e.poolPost = e.poolPre

C7_Witness ==
    \E n \in Entries("spawnSandAt") : log[n].active = SandSlots

\* C8: whenever an active grain has y <= terrain height after its position
\* update, that step adds exactly +grainSize to the elevation at (x, z) through
\* updateTerrainAtPoint and deactivates the grain, also for a grain off the grid
\* but inside the expanded bounding box.
C8_DepositAddsGrainSizeAnywhere ==
    \A n \in Entries("grain") :
        LET e == log[n]
        IN  e.y <= e.ground =>
              /\ e.outcome = "deposit"
              /\ getTerrainHeight(e.hmPost, e.x, e.z) =
                    getTerrainHeight(e.hmPre, e.x, e.z) + SAND_PARTICLE_SIZE
              /\ ~sandPool[e.slot].visible

\* C8, amended: such a grain always calls updateTerrainAtPoint(x, z, +grainSize)
\* and is deactivated; the elevation at (x, z) rises by exactly grainSize when
\* (x, z) maps to a grid cell, and no cell changes when it maps off the grid.
C8_DepositThroughBrush ==
    \A n \in Entries("grain") :
        LET e == log[n]
            i == IndexX(e.x)
            j == IndexZ(e.z)
        IN  e.y <= e.ground =>
              /\ e.outcome = "deposit"
              /\ ~sandPool[e.slot].visible
              /\ e.hmPost = updateTerrainAtPoint(e.hmPre, e.x, e.z, SAND_PARTICLE_SIZE)
              /\ IF i \in Cells /\ j \in Cells
                 THEN e.hmPost[i][j] = e.hmPre[i][j] + SAND_PARTICLE_SIZE
                 ELSE e.hmPost = e.hmPre

\* a grain lands off the grid, inside the expanded box
C8_Witness ==
    \E n \in Entries("grain") :
        LET e == log[n]
        IN  /\ e.y <= e.ground
            /\ ~e.oob
            /\ ~(IndexX(e.x) \in Cells /\ IndexZ(e.z) \in Cells)

\* C9: a grain deactivated above the terrain, because its life reached <= 0 or
\* it left the expanded bounding box, changes no height-field cell.
C9_CullDepositsNothing ==
    \A n \in Entries("grain") :
        LET e == log[n]
        IN  (e.y > e.ground /\ (e.life <= 0 \/ e.oob)) =>
              /\ e.outcome = "cull"
              /\ ~sandPool[e.slot].visible
              /\ e.hmPost = e.hmPre

\* a grain over the grid expires in the air
C9_Witness ==
    \E n \in Entries("grain") :
        LET e == log[n]
        IN  /\ e.y > e.ground /\ e.life <= 0 /\ ~e.oob
            /\ IndexX(e.x) \in Cells /\ IndexZ(e.z) \in Cells

\* ceil(L / d) for a tracer spawned with life WIND_TTL
LifeSteps == (WIND_TTL + WIND_UPDATE_INTERVAL - 1) \div WIND_UPDATE_INTERVAL

WindStepOps == {"updateWindParticles", "windSpawn", "windSpawnPhase", "erode",
                "spawnSandAt", "tracer"}
GrainStepOps == {"updateSandParticles", "grainSpawn", "grainSpawnPhase", "grain"}

IndicesOf(l, ops) == {n \in DOMAIN l : l[n].op \in ops}

\* the calls l of one running frame: the wind step's calls, if any, then the
\* grain step's, then the one avalanche pass
FrameOrder(l) ==
    /\ Cardinality(IndicesOf(l, {"updateWindParticles"})) <= 1
    /\ Cardinality(IndicesOf(l, {"updateSandParticles"})) = 1
    /\ Cardinality(IndicesOf(l, {"applyAvalanche"})) = 1
    /\ \A w \in IndicesOf(l, WindStepOps), g \in IndicesOf(l, GrainStepOps) : w < g
    /\ \A g \in IndicesOf(l, GrainStepOps), a \in IndicesOf(l, {"applyAvalanche"}) : g < a
    /\ l[Len(l)].op = "applyAvalanche"

\* C11: within every tick of a running simulation the wind-tracer step, when it
\* fires, completes before the grain step begins, the grain step completes
\* before the avalanche pass begins, and the grain step and the avalanche pass
\* each run exactly once.
C11_StepOrder ==
    [][(isSimulating /\ ticks' = ticks + 1) => FrameOrder(log')]_vars

\* a frame in which a tracer was advanced, a grain was advanced and the pass ran
C11_Witness ==
    /\ IndicesOf(log, {"tracer"}) # {}
    /\ IndicesOf(log, {"grain"}) # {}
    /\ IndicesOf(log, {"applyAvalanche"}) # {}

\* C12: while the run flag is off a driver tick leaves every height-field cell
\* and every slot of both pools (position, velocity, life, active) unchanged.
C12_IdleTickFreezes ==
    [][(~isSimulating /\ ticks' = ticks + 1) =>
          UNCHANGED <<heightmap, windParticles, sandPool>>]_vars

\* an idle tick has run (the accumulator advanced since the reset) over pools
\* that hold the particles of an earlier run
C12_Witness ==
    /\ ~isSimulating
    /\ timeAccumulator > 0
    /\ \E k \in SandSlots : sandPool[k] # NewSandParticle
    /\ \E k \in WindSlots : windParticles[k] # NewWindParticle

\* C13: after reset, from any state, every slot of both pools is inactive, the
\* run state is idle and the time accumulator is zero.
C13_ResetClears ==
    \A n \in Entries("resetSimulation") :
        /\ Active(windParticles) = {}
        /\ Active(sandPool) = {}
        /\ ~isSimulating
        /\ timeAccumulator = 0

\* a reset of a running simulation with active tracers and grains
C13_Witness ==
    \E n \in Entries("resetSimulation") :
        /\ log[n].running
        /\ Active(log[n].windPre) # {}
        /\ Active(log[n].sandPre) # {}

\* the all-zero grid stamped with the first n seeds, each a paint of duneHeight
RECURSIVE StampedField(_, _)
StampedField(seeds, n) ==
    IF n = 0 THEN ZeroHeightmap
    ELSE updateTerrainAtPoint(StampedField(seeds, n - 1), seeds[n].x, seeds[n].z,
                              duneHeight)

\* C14: the height field after a reset is the all-zero (R+1) x (R+1) grid
\* stamped with exactly duneCount paints of height duneHeight and smoothed by
\* exactly 3 passes, and the dune list holds those duneCount dunes: both are
\* determined by the seeds and the configured values, whatever the terrain and
\* the pools were before.
C14_ResetReplacesField ==
    \A n \in Entries("resetSimulation") :
        LET e == log[n]
        IN  /\ DOMAIN e.seeds = 1..duneCount
            /\ heightmap =
                  smoothTerrain(smoothTerrain(smoothTerrain(StampedField(e.seeds, duneCount))))
            /\ DOMAIN heightmap = 0..TERRAIN_RESOLUTION
            /\ \A i \in DOMAIN heightmap : DOMAIN heightmap[i] = 0..TERRAIN_RESOLUTION
            /\ Len(dunes) = duneCount
            /\ \A k \in 1..duneCount :
                  /\ dunes[k].x = e.seeds[k].x /\ dunes[k].z = e.seeds[k].z
                  /\ dunes[k].height = duneHeight

\* a reset of a simulation that ran: grains in the air, and a terrain that is
\* not the one the reset builds
C14_Witness ==
    \E n \in Entries("resetSimulation") :
        /\ Active(log[n].sandPre) # {}
        /\ log[n].hmPre # heightmap
        /\ log[n].hmPre # ZeroHeightmap

\* C15: the grain pool's capacity is the configured sandAmount: once sandAmount
\* is set and the simulation reset, the pool has sandAmount slots, and the
\* active grains never number more than sandAmount.
C15_PoolCapacityIsSandAmount ==
    /\ Cardinality(Active(sandPool)) <= sandAmount
    /\ \A n \in Entries("resetSimulation") :
          sandAmount # InitSandAmount => Cardinality(DOMAIN sandPool) = sandAmount

\* ------------------------------------------------------------------------
\* Properties of the wind inputs (WindSpec)

\* C16: wind speed is >= 0 in every reachable state, whatever the sequence of
\* speed-up and speed-down events.
C16_WindSpeedNonNegative == windSpeed >= 0

\* a speed-down event arrived at a speed below one step
C16_Witness ==
    \E n \in Entries("keydown") :
        log[n].key = "ArrowDown" /\ log[n].speedPre < SPEED_STEP

\* C17: the stored windDirection stays within a single full-turn range.  Any
\* such range holds the initial direction, so the direction would stay less
\* than a full turn from it.
C17_DirectionWithinOneTurn ==
    Abs(windDirection - InitWindDirection) < 360

\* the change of direction a key stands for
Turn(key) ==
    CASE key = "ArrowLeft" -> -DIR_STEP
      [] key = "ArrowRight" -> DIR_STEP
      [] OTHER -> 0

\* C17, amended: the stored windDirection is not reduced: every turn-left event
\* subtracts exactly pi / 36 from it and every turn-right event adds exactly
\* pi / 36, so it grows and shrinks without bound.
C17_DirectionUnreduced ==
    [][\A n \in {m \in DOMAIN log' : log'[m].op = "keydown"} :
          windDirection' = windDirection + Turn(log'[n].key)]_vars

\* the stored direction is a full turn or more from the initial one
C17_Witness ==
    /\ Abs(windDirection - InitWindDirection) >= 360
    /\ Entries("keydown") # {}

\* C18: the wind direction and the wind speed are changed only by the wind
\* input events: a driver tick, start and reset leave both unchanged.
C18_WindChangedOnlyByInput ==
    [][(windSpeed' # windSpeed \/ windDirection' # windDirection) =>
          (log' # <<>> /\ log'[1].op = "keydown")]_vars

\* a frame with the wind step and the grain step ran under a wind that an input
\* had changed
C18_Witness ==
    /\ windSpeed # InitWindSpeed \/ windDirection # InitWindDirection
    /\ IndicesOf(log, {"tracer"}) # {}
    /\ IndicesOf(log, {"grain"}) # {}

\* ------------------------------------------------------------------------
\* Properties of the avalanche pass

\* The comparisons of the reference pass, in order: the interior cells in
\* row-major order, for each the neighbours up, down, left, right.
Visits ==
    [k \in 1..(4 * (TERRAIN_RESOLUTION - 1) * (TERRAIN_RESOLUTION - 1)) |->
        LET cell == (k - 1) \div 4
            dir == (k - 1) % 4
            row == 1 + (cell \div (TERRAIN_RESOLUTION - 1))
            col == 1 + (cell % (TERRAIN_RESOLUTION - 1))
        IN  <<row, col,
              row + (CASE dir = 0 -> -1 [] dir = 1 -> 1 [] OTHER -> 0),
              col + (CASE dir = 2 -> -1 [] dir = 3 -> 1 [] OTHER -> 0)>>] @@ <<>>

\* t = (diff - A) * 0.5 moved from the source to the target when diff > A
Moved(hm, v) ==
    LET diff == hm[v[1]][v[2]] - hm[v[3]][v[4]]
        t == (diff - ANGLE_OF_REPOSE) \div 2
    IN  IF diff > ANGLE_OF_REPOSE
        THEN Eval([i \in Cells |-> Eval([j \in Cells |->
                hm[i][j] - (IF <<i, j>> = <<v[1], v[2]>> THEN t ELSE 0)
                         + (IF <<i, j>> = <<v[3], v[4]>> THEN t ELSE 0)])])
        ELSE hm

\* the heights after the comparisons k, k + 1, ... of the reference pass, each
\* applied to the heights the one before left
RECURSIVE SequentialPass(_, _)
SequentialPass(hm, k) ==
    IF k > Len(Visits) THEN hm
    ELSE LET h == Moved(hm, Visits[k])
         IN  Then(h, SequentialPass(h, k + 1))

\* C19: one applyAvalanche call produces exactly the height field of the
\* reference sequential pass, in which every transfer is applied in place
\* before the next comparison.
C19_AvalancheIsSequentialPass ==
    \A n \in Entries("applyAvalanche") :
        log[n].hmPost = SequentialPass(log[n].hmPre, 1)

\* a pass that moved sand and whose result is not the double-buffered one
C19_Witness ==
    \E n \in Entries("applyAvalanche") :
        /\ log[n].hmPost # log[n].hmPre
        /\ log[n].hmPost # applyAvalancheMutBuffered(log[n].hmPre)

\* C20: every read and write of the height field by paint, query, smoothing
\* and the avalanche pass uses row and column indices within [0, R].
C20_IndicesInRange ==
    \A n \in DOMAIN log :
        \A c \in log[n].touched :
            /\ c[1] >= 0 /\ c[1] <= TERRAIN_RESOLUTION
            /\ c[2] >= 0 /\ c[2] <= TERRAIN_RESOLUTION

\* a paint centred in the grid whose brush square reaches beyond the grid
C20_Witness ==
    \E n \in Entries("updateTerrainAtPoint") :
        LET e == log[n]
        IN  /\ e.touched # {}
            /\ IndexX(e.x) + e.radius > TERRAIN_RESOLUTION
            /\ IndexZ(e.z) - e.radius < 0

\* ------------------------------------------------------------------------
\* Lifetimes, the accumulator, and the bodies of the two particle steps (Spec)

NoneExpired(wind, sand) ==
    /\ \A k \in Active(wind) : wind[k].life > 0
    /\ \A k \in Active(sand) : sand[k].life > 0

\* the entry of l that closes the spawn phase named op
PhaseOf(l, op) == l[CHOOSE n \in IndicesOf(l, {op}) : TRUE]

\* In the calls l of one frame, ending with the pools wind and sand: each
\* advanced particle is advanced once, its life is the life it had after the
\* spawn phase less one decrement, and it ends the frame inactive when that
\* life is <= 0.
DecrementedOnce(l, wind, sand) ==
    /\ \A n \in IndicesOf(l, {"tracer"}) :
          /\ \A m \in IndicesOf(l, {"tracer"}) : l[m].slot = l[n].slot => m = n
          /\ l[n].life = PhaseOf(l, "windSpawnPhase").poolPost[l[n].slot].life
                            - WIND_UPDATE_INTERVAL
          /\ wind[l[n].slot].life = l[n].life
          /\ l[n].life <= 0 => ~wind[l[n].slot].visible
    /\ \A n \in IndicesOf(l, {"grain"}) :
          /\ \A m \in IndicesOf(l, {"grain"}) : l[m].slot = l[n].slot => m = n
          /\ l[n].life = PhaseOf(l, "grainSpawnPhase").poolPost[l[n].slot].life
                            - PhaseOf(l, "updateSandParticles").deltaTime
          /\ sand[l[n].slot].life = l[n].life
          /\ l[n].life <= 0 => ~sand[l[n].slot].visible

\* C21: life is decremented exactly once per update of an active particle and
\* expiry is applied in the same step: at the end of every tick no active wind
\* tracer and no active grain has life <= 0.
C21_NoExpiredActive ==
    [][ticks' = ticks + 1 =>
          /\ NoneExpired(windParticles', sandPool')
          /\ DecrementedOnce(log', windParticles', sandPool')]_vars

\* a frame in which a tracer and a grain, both inside the box and the grain
\* above the ground, ran out of life, while another particle lives on
C21_Witness ==
    /\ \E n \in Entries("tracer") :
          log[n].life <= 0 /\ log[n].hidden /\ ~OutOfBox(log[n].x, log[n].z)
    /\ \E n \in Entries("grain") :
          log[n].life <= 0 /\ log[n].outcome = "cull" /\ ~log[n].oob
    /\ Active(windParticles) \cup Active(sandPool) # {}

\* C22: elapsed time is accumulated only while the simulation is running: a
\* tick that occurs while idle leaves the time accumulator unchanged, so that
\* after a reset, idle ticks and a start, the first wind-tracer step waits for
\* a full interval of running time.
C22_IdleTickKeepsAccumulator ==
    [][(~isSimulating /\ ticks' = ticks + 1) => timeAccumulator' = timeAccumulator]_vars

\* C23: in a running tick the wind-tracer step runs if and only if the
\* accumulator, after adding the frame delta, is >= the interval, and the
\* accumulator is then set to zero: at most one wind-tracer step per tick
\* however large the delta, the remainder above the interval discarded.
C23_WindStepGate ==
    [][(isSimulating /\ ticks' = ticks + 1) =>
          LET deltaTime == PhaseOf(log', "updateSandParticles").deltaTime
              due == timeAccumulator + deltaTime >= WIND_UPDATE_INTERVAL
          IN  /\ Cardinality(IndicesOf(log', {"updateWindParticles"}))
                    = (IF due THEN 1 ELSE 0)
              /\ timeAccumulator' = IF due THEN 0 ELSE timeAccumulator + deltaTime]_vars

\* a running frame whose delta alone exceeds the interval: one wind step, and
\* nothing left in the accumulator
C23_Witness ==
    /\ isSimulating
    /\ \E n \in Entries("updateSandParticles") :
          log[n].deltaTime > WIND_UPDATE_INTERVAL
    /\ Cardinality(Entries("updateWindParticles")) = 1
    /\ timeAccumulator = 0

\* C24: in each wind-tracer step every tracer that is active once the spawn
\* phase has finished, tracers spawned in this step included, performs exactly
\* one updateTerrainAtPoint with -EROSION_RATE at its advanced position and
\* exactly one grain spawn attempt at that position, also in the step in which
\* it is deactivated; tracers inactive at that point perform neither.
C24_LiveTracerErodesAndLaunches ==
    \A n \in Entries("windSpawnPhase") :
        LET pool == log[n].poolPost
        IN  /\ \A k \in WindSlots :
                  LET erosions == {m \in Entries("erode") : log[m].slot = k}
                      x == pool[k].x + pool[k].vx * WIND_UPDATE_INTERVAL
                      z == pool[k].z + pool[k].vz * WIND_UPDATE_INTERVAL
                  IN  IF pool[k].visible
                      THEN /\ Cardinality(erosions) = 1
                           /\ \A m \in erosions :
                                 /\ log[m].x = x /\ log[m].z = z
                                 /\ log[m].hmPost = updateTerrainAtPoint(
                                                       log[m].hmPre, x, z, -EROSION_RATE)
                                 /\ log[m + 1].op = "spawnSandAt"
                                 /\ log[m + 1].x = x /\ log[m + 1].z = z
                                 /\ log[m + 2].op = "tracer" /\ log[m + 2].slot = k
                      ELSE erosions = {}
            /\ Cardinality(Entries("spawnSandAt")) = Cardinality(Active(pool))
            /\ Cardinality(Entries("tracer")) = Cardinality(Active(pool))

\* a step in which a tracer is spawned and deactivated, having eroded and
\* launched, while another slot stays inactive
C24_Witness ==
    /\ \E n \in Entries("windSpawn"), m \in Entries("tracer") :
          /\ log[m].slot = log[n].slot
          /\ log[m].hidden
          /\ log[m - 1].op = "spawnSandAt" /\ log[m - 1].slot # -1
    /\ \E n \in Entries("windSpawnPhase") :
          \E k \in WindSlots : ~log[n].poolPost[k].visible

\* C25: in the grain step the deposition check takes precedence over culling:
\* a grain that in the same frame both has y <= terrain height and has
\* life <= 0 or is outside the expanded box goes through the deposit branch
\* (paint +SAND_PARTICLE_SIZE, then deactivate), and exactly one of deposit or
\* cull applies to any grain deactivated in a frame, never both.
C25_DepositBeforeCull ==
    \A n \in Entries("grain") :
        LET e == log[n]
            painted == updateTerrainAtPoint(e.hmPre, e.x, e.z, SAND_PARTICLE_SIZE)
        IN  /\ e.y <= e.ground =>
                  /\ e.outcome = "deposit"
                  /\ e.hmPost = painted
                  /\ ~sandPool[e.slot].visible
            /\ (e.y > e.ground /\ (e.life <= 0 \/ e.oob)) =>
                  /\ e.outcome = "cull"
                  /\ e.hmPost = e.hmPre
                  /\ ~sandPool[e.slot].visible
            /\ (e.y > e.ground /\ e.life > 0 /\ ~e.oob) =>
                  /\ e.outcome = "alive"
                  /\ e.hmPost = e.hmPre
                  /\ sandPool[e.slot].visible

\* a grain at or below the ground that is also out of life or outside the box,
\* at a place where the paint changes the height field
C25_Witness ==
    \E n \in Entries("grain") :
        LET e == log[n]
        IN  /\ e.y <= e.ground
            /\ e.life <= 0 \/ e.oob
            /\ e.outcome = "deposit"
            /\ e.hmPost # e.hmPre

\* the cell (i, j) and its neighbours of the 3 x 3 square that lie in the grid
InGridNeighbours(i, j) ==
    {c \in Cells \X Cells : Abs(c[1] - i) <= 1 /\ Abs(c[2] - j) <= 1}

RECURSIVE SumHeights(_, _)
SumHeights(hm, S) ==
    IF S = {} THEN 0
    ELSE LET c == CHOOSE c \in S : TRUE
         IN  hm[c[1]][c[2]] + SumHeights(hm, S \ {c})

\* post is one pass over pre: every cell is avg(N) * 0.3 + old * 0.7 to the
\* nearest unit, avg and old taken from pre, N holding 4, 6 or 9 cells
IsSmoothed(pre, post) ==
    \A i \in Cells, j \in Cells :
        LET N == InGridNeighbours(i, j)
            count == Cardinality(N)
        IN  /\ count = (IF i \in {0, TERRAIN_RESOLUTION} THEN 2 ELSE 3)
                         * (IF j \in {0, TERRAIN_RESOLUTION} THEN 2 ELSE 3)
            /\ 2 * Abs(10 * count * post[i][j]
                       - (3 * SumHeights(pre, N) + 7 * count * pre[i][j])) <= 10 * count

HeightOps == {"erode", "grain", "applyAvalanche"}

\* the height field runs through the calls l of a frame from pre to post: each
\* paint and the avalanche pass starts from what the call before it left
HeightChain(l, pre, post) ==
    LET H == IndicesOf(l, HeightOps)
    IN  /\ \A n \in H :
              LET before == {m \in H : m < n}
              IN  l[n].hmPre = IF before = {} THEN pre
                               ELSE l[CHOOSE m \in before : \A q \in before : q <= m].hmPost
        /\ post = IF H = {} THEN pre
                  ELSE l[CHOOSE m \in H : \A q \in H : q <= m].hmPost

\* C26: one smoothTerrain pass is double-buffered: every cell's new value is
\* avg(N) * S + old * (1 - S), N the cell plus its in-grid 3 x 3 neighbours (4
\* at a corner, 6 on an edge, 9 inside), avg and old taken from the field
\* before the pass; smoothing runs exactly 3 times per terrain initialisation
\* and never inside a tick.
C26_SmoothingPass ==
    [][/\ (log' # <<>> /\ log'[1].op = "resetSimulation") =>
             LET f0 == StampedField(log'[1].seeds, duneCount)
                 f1 == smoothTerrain(f0)
                 f2 == smoothTerrain(f1)
             IN  /\ IsSmoothed(f0, f1)
                 /\ IsSmoothed(f1, f2)
                 /\ IsSmoothed(f2, heightmap')
       /\ ticks' = ticks + 1 => HeightChain(log', heightmap, heightmap')]_vars

\* a reset whose first smoothing pass changes a corner, an edge and an inner
\* cell of the stamped field
C26_Witness ==
    \E n \in Entries("resetSimulation") :
        LET f0 == StampedField(log[n].seeds, duneCount)
            f1 == smoothTerrain(f0)
        IN  /\ f1[0][0] # f0[0][0]
            /\ f1[0][1] # f0[0][1]
            /\ f1[1][1] # f0[1][1]

\* ------------------------------------------------------------------------
\* Properties of the avalanche pass (TerrainSpec)

\* C27: checkTransfer changes the two cells only when height[cell] -
\* height[neighbour] > A, and immediately after such a transfer the difference
\* equals A (to the length unit: halving an odd excess leaves one unit); when
\* the difference is <= A, the neighbour being the higher one included, both
\* cells are left unchanged.  No other cell changes in either case.
C27_TransferLeavesRepose ==
    \A n \in Entries("checkTransfer") :
        LET e == log[n]
            diff == e.hmPre[e.row][e.col] - e.hmPre[e.nRow][e.nCol]
            after == e.hmPost[e.row][e.col] - e.hmPost[e.nRow][e.nCol]
            t == e.hmPre[e.row][e.col] - e.hmPost[e.row][e.col]
        IN  /\ diff > ANGLE_OF_REPOSE =>
                  /\ after = ANGLE_OF_REPOSE + ((diff - ANGLE_OF_REPOSE) % 2)
                  /\ t >= 0
                  /\ e.hmPost[e.nRow][e.nCol] = e.hmPre[e.nRow][e.nCol] + t
            /\ diff <= ANGLE_OF_REPOSE => e.hmPost = e.hmPre
            /\ \A i \in Cells, j \in Cells :
                  <<i, j>> \notin {<<e.row, e.col>>, <<e.nRow, e.nCol>>}
                      => e.hmPost[i][j] = e.hmPre[i][j]

\* a call on a slope steeper than A, which moves sand
C27_Witness ==
    \E n \in Entries("checkTransfer") :
        LET e == log[n]
        IN  /\ e.hmPre[e.row][e.col] - e.hmPre[e.nRow][e.nCol] > ANGLE_OF_REPOSE + 1
            /\ e.hmPost # e.hmPre

\* the sum of all cell elevations of hm
TotalMass(hm) == SumHeights(hm, Cells \X Cells)

\* C28: the avalanche pass conserves mass: for every height field the sum of
\* all cell elevations after applyAvalanche equals the sum before it.
C28_AvalancheConservesMass ==
    \A n \in Entries("applyAvalanche") :
        TotalMass(log[n].hmPost) = TotalMass(log[n].hmPre)

\* a pass that moves sand out of a field of positive mass
C28_Witness ==
    \E n \in Entries("applyAvalanche") :
        /\ log[n].hmPost # log[n].hmPre
        /\ TotalMass(log[n].hmPre) > 0

Boundary(i, j) == i \in {0, TERRAIN_RESOLUTION} \/ j \in {0, TERRAIN_RESOLUTION}
Corner(i, j) == i \in {0, TERRAIN_RESOLUTION} /\ j \in {0, TERRAIN_RESOLUTION}

\* C29: in the avalanche pass only interior cells act as sources: a boundary
\* cell (row or column 0 or R) can receive mass from an adjacent interior cell
\* but never gives any, so no boundary cell's elevation is lower after
\* applyAvalanche than before, and the four corner cells are never changed.
C29_BoundaryNeverGives ==
    \A n \in Entries("applyAvalanche") :
        \A i \in Cells, j \in Cells :
            /\ Boundary(i, j) => log[n].hmPost[i][j] >= log[n].hmPre[i][j]
            /\ Corner(i, j) => log[n].hmPost[i][j] = log[n].hmPre[i][j]

\* a pass in which a boundary cell receives sand, on a field where a boundary
\* cell stands more than A above one of its neighbours
C29_Witness ==
    \E n \in Entries("applyAvalanche") :
        /\ \E i \in Cells, j \in Cells :
              Boundary(i, j) /\ log[n].hmPost[i][j] > log[n].hmPre[i][j]
        /\ \E i \in Cells, j \in Cells, d \in {<<-1, 0>>, <<1, 0>>, <<0, -1>>, <<0, 1>>} :
              /\ Boundary(i, j)
              /\ InGrid(i + d[1], j + d[2])
              /\ log[n].hmPre[i][j] - log[n].hmPre[i + d[1]][j + d[2]] > ANGLE_OF_REPOSE

\* ------------------------------------------------------------------------
\* Positions of the active particles (Spec)

AllInBox(wind, sand) ==
    /\ \A k \in Active(wind) : ~OutOfBox(wind[k].x, wind[k].z)
    /\ \A k \in Active(sand) : ~OutOfBox(sand[k].x, sand[k].z)

\* C30: at the end of every running tick every active wind tracer and every
\* active grain, grains launched by a tracer in that tick at the tracer's
\* position included, has x within [-W/2 - margin, W/2 + margin] and z within
\* [-D/2 - margin, D/2 + margin].
C30_ActiveParticlesInBox ==
    [][(isSimulating /\ ticks' = ticks + 1) => AllInBox(windParticles', sandPool')]_vars

\* a frame in which a tracer outside the box launched a grain there and both
\* were deactivated, while a particle inside the box stays active
C30_Witness ==
    /\ \E n \in Entries("spawnSandAt") :
          /\ log[n].slot # -1
          /\ OutOfBox(log[n].x, log[n].z)
          /\ \E m \in Entries("grain") :
                log[m].slot = log[n].slot /\ log[m].oob /\ log[m].outcome = "cull"
    /\ Active(windParticles) \cup Active(sandPool) # {}

=============================================================================
